---------------------------- MODULE Spec2Model ----------------------------
(***************************************************************************)
(* A model of fosite's OAuth2 authorization endpoint (src/authorize.go):   *)
(* redirect URI resolution, the authorize request builder, the response    *)
(* type dispatcher and the two response writers.                           *)
(*                                                                         *)
(* Strings are sequences of one-character strings, so that parsing,        *)
(* escaping and string comparison are computed and not assumed.            *)
(***************************************************************************)
EXTENDS Integers, Sequences, FiniteSets, TLC

VARIABLES
    pc,          \* position of the single request-handling thread
    entry,       \* the exported function the caller entered
    store,       \* c.Store: client id -> Client (read-only)
    r,           \* the inbound *http.Request
    client,      \* NewAuthorizeRequest's local client / Match's argument
    rawRedirURI, \* NewAuthorizeRequest's local rawRedirURI / Match's rawurl
    ret,         \* return value of MatchRedirectURIWithClientRedirectURIs
    request,     \* the *AuthorizeRequest (ar)
    err,         \* the error the last exported function returned
    steps,       \* the steps of NewAuthorizeRequest evaluated so far
    handlers,    \* o.ResponseTypeHandlers
    idx,         \* loop position in NewAuthorizeResponse
    resp,        \* the *AuthorizeResponse
    found,       \* NewAuthorizeResponse's local found
    invoked,     \* indices of the handlers invoked so far, in order
    out,         \* value returned by NewAuthorizeResponse (resp or Nil)
    rw           \* the http.ResponseWriter

vars == <<pc, entry, store, r, client, rawRedirURI, ret, request, err, steps,
          handlers, idx, resp, found, invoked, out, rw>>

(***************************************************************************)
(* Strings.                                                                *)
(***************************************************************************)

\* ASCII 32..126, in order: Ascii[k] is the character with code k + 31
\* (code 96 is spelled out: the lexer takes no backquote in a string).
Ascii ==
    << " ", "!", "\"", "#", "$", "%", "&", "'", "(", ")", "*", "+", ",", "-",
       ".", "/", "0", "1", "2", "3", "4", "5", "6", "7", "8", "9", ":", ";",
       "<", "=", ">", "?", "@", "A", "B", "C", "D", "E", "F", "G", "H", "I",
       "J", "K", "L", "M", "N", "O", "P", "Q", "R", "S", "T", "U", "V", "W",
       "X", "Y", "Z", "[", "\\", "]", "^", "_", "BACKQUOTE", "a", "b", "c", "d", "e",
       "f", "g", "h", "i", "j", "k", "l", "m", "n", "o", "p", "q", "r", "s",
       "t", "u", "v", "w", "x", "y", "z", "{", "|", "}", "~" >>

\* A byte outside 32..126 (only an escape can produce one) is kept as RawByte.
RawByte == "BYTE"

Ord(c) == IF c = RawByte THEN 0 ELSE 31 + (CHOOSE k \in 1..Len(Ascii) : Ascii[k] = c)

Chr(n) == IF n \in 32..126 THEN Ascii[n - 31] ELSE RawByte

IsUpper(c) == Ord(c) \in 65..90
IsLower(c) == Ord(c) \in 97..122
IsDigit(c) == Ord(c) \in 48..57
IsLetter(c) == IsUpper(c) \/ IsLower(c)

HexDigits == <<"0", "1", "2", "3", "4", "5", "6", "7", "8", "9",
               "A", "B", "C", "D", "E", "F">>

\* strings.ToLower
ToLower(s) == [k \in 1..Len(s) |-> IF IsUpper(s[k]) THEN Ascii[Ord(s[k]) + 32 - 31]
                                                     ELSE s[k]]

\* strings.Index for a one-character separator: 0 when absent.
Index(s, c) ==
    IF \E k \in 1..Len(s) : s[k] = c
    THEN CHOOSE k \in 1..Len(s) : s[k] = c /\ \A j \in 1..(k - 1) : s[j] # c
    ELSE 0

HasPrefix(s, p) == Len(s) >= Len(p) /\ SubSeq(s, 1, Len(p)) = p

From(s, k) == SubSeq(s, k, Len(s))

RECURSIVE Concat(_)
Concat(ss) == IF ss = <<>> THEN <<>> ELSE Head(ss) \o Concat(Tail(ss))

\* strings.Split(s, " ")
RECURSIVE Split(_)
Split(s) ==
    LET k == Index(s, " ") IN
    IF k = 0 THEN <<s>> ELSE <<SubSeq(s, 1, k - 1)>> \o Split(From(s, k + 1))

\* removeEmpty: the non-empty items, in order.
removeEmpty(args) == SelectSeq(args, LAMBDA a : a # <<>>)

\* StringInSlice: simple string comparison against each item.
StringInSlice(needle, haystack) == \E k \in 1..Len(haystack) : haystack[k] = needle

(***************************************************************************)
(* net/url, as the code uses it: url.Parse, url.ParseRequestURI (through   *)
(* govalidator.IsRequestURL), URL.String, URL.Query, Values.Add/Get/Encode *)
(* and url.QueryUnescape.  Userinfo is kept as raw text and the host is    *)
(* taken literally.                                                        *)
(***************************************************************************)

ishex(c) == IsDigit(c) \/ Ord(c) \in 97..102 \/ Ord(c) \in 65..70

unhex(c) == IF IsDigit(c) THEN Ord(c) - 48
            ELSE IF Ord(c) \in 97..102 THEN Ord(c) - 97 + 10
            ELSE Ord(c) - 65 + 10

\* The reserved characters of RFC 3986 section 2.2 that shouldEscape lists.
Reserved == {"$", "&", "+", ",", "/", ":", ";", "=", "?", "@"}

\* mode is "path", "query" (encodeQueryComponent) or "fragment".
shouldEscape(c, mode) ==
    IF IsLetter(c) \/ IsDigit(c) THEN FALSE
    ELSE IF c \in {"-", "_", ".", "~"} THEN FALSE
    ELSE IF c \in Reserved
         THEN IF mode = "path" THEN c = "?"
              ELSE IF mode = "query" THEN TRUE
              ELSE FALSE
    ELSE TRUE

RECURSIVE escape(_, _)
escape(s, mode) ==
    IF s = <<>> THEN <<>>
    ELSE LET c == Head(s) IN
         (IF ~shouldEscape(c, mode) THEN <<c>>
          ELSE IF c = " " /\ mode = "query" THEN <<"+">>
          ELSE <<"%", HexDigits[(Ord(c) \div 16) + 1], HexDigits[(Ord(c) % 16) + 1]>>)
         \o escape(Tail(s), mode)

\* unescape returns [err, s]: err on a "%" not followed by two hex digits.
RECURSIVE unescape(_, _)
unescape(s, mode) ==
    IF s = <<>> THEN [err |-> FALSE, s |-> <<>>]
    ELSE IF Head(s) = "%"
         THEN IF Len(s) < 3 \/ ~ishex(s[2]) \/ ~ishex(s[3])
              THEN [err |-> TRUE, s |-> <<>>]
              ELSE LET rest == unescape(From(s, 4), mode) IN
                   IF rest.err THEN rest
                   ELSE [err |-> FALSE,
                         s |-> <<Chr(16 * unhex(s[2]) + unhex(s[3]))>> \o rest.s]
    ELSE LET rest == unescape(Tail(s), mode) IN
         IF rest.err THEN rest
         ELSE [err |-> FALSE,
               s |-> <<IF Head(s) = "+" /\ mode = "query" THEN " " ELSE Head(s)>> \o rest.s]

QueryUnescape(s) == unescape(s, "query")

QueryEscape(s) == escape(s, "query")

\* split(s, c, cutc): s cut at the first c, which is dropped when cutc.
split(s, c, cutc) ==
    LET k == Index(s, c) IN
    IF k = 0 THEN <<s, <<>>>>
    ELSE IF cutc THEN <<SubSeq(s, 1, k - 1), From(s, k + 1)>>
    ELSE <<SubSeq(s, 1, k - 1), From(s, k)>>

\* strings.LastIndex for a one-character separator: 0 when absent.
LastIndex(s, c) ==
    IF \E k \in 1..Len(s) : s[k] = c
    THEN CHOOSE k \in 1..Len(s) : s[k] = c /\ \A j \in (k + 1)..Len(s) : s[j] # c
    ELSE 0

\* getscheme returns [err, scheme, path].
getscheme(rawurl) ==
    LET stops == {k \in 1..Len(rawurl) :
                     ~IsLetter(rawurl[k])
                     /\ ~(k > 1 /\ (IsDigit(rawurl[k]) \/ rawurl[k] \in {"+", "-", "."}))}
    IN  IF stops = {} THEN [err |-> FALSE, scheme |-> <<>>, path |-> rawurl]
        ELSE LET k == CHOOSE m \in stops : \A n \in stops : m <= n IN
             IF rawurl[k] = ":"
             THEN IF k = 1 THEN [err |-> TRUE, scheme |-> <<>>, path |-> <<>>]
                  ELSE [err |-> FALSE, scheme |-> SubSeq(rawurl, 1, k - 1),
                        path |-> From(rawurl, k + 1)]
             ELSE [err |-> FALSE, scheme |-> <<>>, path |-> rawurl]

EmptyURL == [Scheme |-> <<>>, Opaque |-> <<>>, User |-> <<>>, Host |-> <<>>,
             Path |-> <<>>, RawQuery |-> <<>>, Fragment |-> <<>>]

ParseError == [err |-> TRUE, url |-> EmptyURL]

\* The steps of parse, each taking what the step before it produced.
\* url.Path, err = unescape(rest, encodePath)
setPath(u, p) ==
    IF p.err THEN ParseError ELSE [err |-> FALSE, url |-> [u EXCEPT !.Path = p.s]]

\* parseAuthority: userinfo up to the last "@" (kept as written), then the host.
setAuthority(u, authority, at) ==
    [u EXCEPT !.User = SubSeq(authority, 1, at), !.Host = From(authority, at + 1)]

\* a is split(rest[2:], "/", false): the authority and the path.
parseAuthority(u, a) ==
    setPath(setAuthority(u, a[1], LastIndex(a[1], "@")), unescape(a[2], "path"))

\* rest is what follows the scheme, without the query.
parseRest(u, rest, viaRequest) ==
    IF ~HasPrefix(rest, <<"/">>) /\ u.Scheme # <<>>
    THEN [err |-> FALSE, url |-> [u EXCEPT !.Opaque = rest]]
    ELSE IF ~HasPrefix(rest, <<"/">>) /\ viaRequest THEN ParseError
    ELSE IF (u.Scheme # <<>> \/ (~viaRequest /\ ~HasPrefix(rest, <<"/", "/", "/">>)))
            /\ HasPrefix(rest, <<"/", "/">>)
    THEN parseAuthority(u, split(From(rest, 3), "/", FALSE))
    ELSE setPath(u, unescape(rest, "path"))

\* q is split(rest, "?", true): what precedes the query, and the query.
parseQueryPart(scheme, q, viaRequest) ==
    parseRest([EmptyURL EXCEPT !.Scheme = scheme, !.RawQuery = q[2]], q[1], viaRequest)

\* gs is getscheme's result; the scheme is lower-cased.
parseScheme(gs, viaRequest) ==
    IF gs.err THEN ParseError
    ELSE parseQueryPart(ToLower(gs.scheme), split(gs.path, "?", TRUE), viaRequest)

\* parse(rawurl, viaRequest) returns [err, url].
parse(rawurl, viaRequest) ==
    IF rawurl = <<>> /\ viaRequest THEN ParseError
    ELSE IF rawurl = <<"*">> THEN [err |-> FALSE, url |-> [EmptyURL EXCEPT !.Path = <<"*">>]]
    ELSE parseScheme(getscheme(rawurl), viaRequest)

setFragment(u, frag, f) ==
    IF u.err THEN ParseError
    ELSE IF frag = <<>> THEN u
    ELSE IF f.err THEN ParseError
    ELSE [err |-> FALSE, url |-> [u.url EXCEPT !.Fragment = f.s]]

\* c is split(rawurl, "#", true).
parseFragment(c) == setFragment(parse(c[1], FALSE), c[2], unescape(c[2], "fragment"))

\* url.Parse: the fragment is cut off first and unescaped.
Parse(rawurl) == parseFragment(split(rawurl, "#", TRUE))

\* url.ParseRequestURI: no fragment is cut off.
ParseRequestURI(rawurl) == parse(rawurl, TRUE)

\* The path as String writes it.
writePath(u, path) ==
    (IF path # <<>> /\ path[1] # "/" /\ u.Host # <<>> THEN <<"/">> ELSE <<>>) \o path

\* URL.String
String(u) ==
    (IF u.Scheme # <<>> THEN u.Scheme \o <<":">> ELSE <<>>)
    \o (IF u.Opaque # <<>> THEN u.Opaque
        ELSE (IF u.Scheme # <<>> \/ u.Host # <<>> \/ u.User # <<>>
              THEN <<"/", "/">> \o u.User \o u.Host
              ELSE <<>>)
             \o writePath(u, IF u.Path = <<"*">> THEN u.Path ELSE escape(u.Path, "path")))
    \o (IF u.RawQuery # <<>> THEN <<"?">> \o u.RawQuery ELSE <<>>)
    \o (IF u.Fragment # <<>> THEN <<"#">> \o escape(u.Fragment, "fragment") ELSE <<>>)

(***************************************************************************)
(* url.Values: a function from keys to the sequence of the key's values.   *)
(***************************************************************************)

NoValues == [k \in {} |-> <<>>]

\* Values.Add
Add(v, key, value) ==
    IF key \in DOMAIN v THEN [v EXCEPT ![key] = Append(@, value)]
    ELSE [k \in DOMAIN v \cup {key} |-> IF k = key THEN <<value>> ELSE v[k]]

\* Values.Get: the first value of the key, or "".
Get(v, key) == IF key \in DOMAIN v /\ v[key] # <<>> THEN v[key][1] ELSE <<>>

\* strings.IndexAny(s, "&;"): 0 when absent.
IndexAmpSemi(s) ==
    LET hits == {k \in 1..Len(s) : s[k] \in {"&", ";"}} IN
    IF hits = {} THEN 0 ELSE CHOOSE m \in hits : \A n \in hits : m <= n

\* m[key] = append(m[key], value) for a pair that comes before the pairs of rest;
\* a pair that is empty or does not unescape is skipped.
addPair(rest, pair, key, val) ==
    IF pair = <<>> \/ key.err \/ val.err THEN rest
    ELSE IF key.s \in DOMAIN rest THEN [rest EXCEPT ![key.s] = <<val.s>> \o @]
    ELSE Add(rest, key.s, val.s)

splitPair(rest, pair, kv) == addPair(rest, pair, QueryUnescape(kv[1]), QueryUnescape(kv[2]))

\* parseQuery (Query drops its error).
RECURSIVE ParseQuery(_)
parseQueryAt(query, k) ==
    IF k = 0 THEN splitPair(NoValues, query, split(query, "=", TRUE))
    ELSE splitPair(ParseQuery(From(query, k + 1)), SubSeq(query, 1, k - 1),
                   split(SubSeq(query, 1, k - 1), "=", TRUE))

ParseQuery(query) == IF query = <<>> THEN NoValues ELSE parseQueryAt(query, IndexAmpSemi(query))

\* URL.Query
Query(u) == ParseQuery(u.RawQuery)

\* Byte-wise string order, as sort.Strings uses it.
RECURSIVE Less(_, _)
Less(a, b) ==
    IF b = <<>> THEN FALSE
    ELSE IF a = <<>> THEN TRUE
    ELSE IF Head(a) # Head(b) THEN Ord(Head(a)) < Ord(Head(b))
    ELSE Less(Tail(a), Tail(b))

RECURSIVE SortedKeys(_)
SortedKeys(S) ==
    IF S = {} THEN <<>>
    ELSE LET m == CHOOSE x \in S : \A y \in S \ {x} : Less(x, y) IN
         <<m>> \o SortedKeys(S \ {m})

\* The key=value pairs of one key, each preceded by "&".
RECURSIVE EncodeKey(_, _)
EncodeKey(key, vs) ==
    IF vs = <<>> THEN <<>>
    ELSE <<"&">> \o QueryEscape(key) \o <<"=">> \o QueryEscape(Head(vs))
         \o EncodeKey(key, Tail(vs))

encodeKeys(v, keys) == Concat([k \in 1..Len(keys) |-> EncodeKey(keys[k], v[keys[k]])])

dropFirst(s) == IF s = <<>> THEN <<>> ELSE Tail(s)

\* Values.Encode: keys sorted, pairs joined by "&".
Encode(v) == dropFirst(encodeKeys(v, SortedKeys(DOMAIN v)))

(***************************************************************************)
(* Redirect URI resolution.                                                *)
(***************************************************************************)

\* govalidator.IsRequestURL: parses as a request URI and has a scheme.
IsRequestURL(rawurl) ==
    LET p == ParseRequestURI(rawurl) IN ~p.err /\ Len(p.url.Scheme) # 0

\* IsValidRedirectURI without the fragment check.
IsValidRedirectURINoFragment(redirectURI) == IsRequestURL(String(redirectURI))

IsValidRedirectURI(redirectURI) ==
    /\ IsRequestURL(String(redirectURI))
    /\ redirectURI.Fragment = <<>>

\* A *url.URL is <<>> (nil) or <<u>>.
MatchFailed == [err |-> TRUE, url |-> <<>>]

\* err == nil && IsValidRedirectURI(parsed): return parsed, nil
validated(parsed) ==
    IF ~parsed.err /\ IsValidRedirectURI(parsed.url)
    THEN [err |-> FALSE, url |-> <<parsed.url>>]
    ELSE MatchFailed

\* The resolution taking any candidate that parses and is valid, registered or not.
MatchAnyCandidate(rawurl, cl) ==
    IF rawurl = <<>> /\ Len(cl.RedirectURIs) = 1
    THEN validated(Parse(cl.RedirectURIs[1]))
    ELSE IF rawurl # <<>>
    THEN validated(Parse(rawurl))
    ELSE MatchFailed

\* The resolution falling back to the first registered URI of several.
MatchFirstRegistered(rawurl, cl) ==
    IF rawurl = <<>> /\ Len(cl.RedirectURIs) >= 1
    THEN validated(Parse(cl.RedirectURIs[1]))
    ELSE IF rawurl # <<>> /\ StringInSlice(rawurl, cl.RedirectURIs)
    THEN validated(Parse(rawurl))
    ELSE MatchFailed

MatchRedirectURIWithClientRedirectURIs(rawurl, cl) ==
    IF rawurl = <<>> /\ Len(cl.RedirectURIs) = 1
    THEN validated(Parse(cl.RedirectURIs[1]))
    ELSE IF rawurl # <<>> /\ StringInSlice(rawurl, cl.RedirectURIs)
    THEN validated(Parse(rawurl))
    ELSE MatchFailed

\* GetRedirectURIFromRequestValues: one more unescape of the form value.
GetRedirectURIFromRequestValues(values) == QueryUnescape(values.redirect_uri)

(***************************************************************************)
(* Errors.                                                                 *)
(***************************************************************************)

NoError == "nil"
ErrInvalidRequest == "ErrInvalidRequest"
ErrInvalidClient == "ErrInvalidClient"
ErrInvalidState == "ErrInvalidState"
ErrInvalidResponseType == "ErrInvalidResponseType"
ErrNoResponseTypeHandlerFound == "ErrNoResponseTypeHandlerFound"
\* An error of a handler that is none of the package's own.
ErrHandlerFailed == "ErrHandlerFailed"

minStateLength == 8
StatusFound == 302

(***************************************************************************)
(* Inputs.                                                                 *)
(***************************************************************************)

MaxRedirectURIs == 2
MaxStateLen == 9
MaxHandlers == 3

uValid   == <<"s", ":", "/", "/", "h", "/", "c">>
uQuery   == <<"s", ":", "/", "/", "h", "/", "c", "?", "k", "=", "v">>
uFrag    == <<"s", ":", "/", "/", "h", "/", "c", "#", "f">>
uHash    == <<"s", ":", "/", "/", "h", "/", "c", "#">>
uUpper   == <<"S", ":", "/", "/", "h", "/", "c">>
uOther   == <<"s", ":", "/", "/", "e", "/", "c">>
uOpaque  == <<"s", ":", "h">>
uRel     == <<"/", "c">>
uNoSlash == <<"h", "/", "c">>
uBad     == <<":", "c">>

URIs == {uValid, uQuery, uFrag, uHash, uUpper, uOther, uOpaque, uRel, uNoSlash, uBad}

\* The registered URIs and redirect_uri form values of the request builder.
BuildURIs == {uValid, uQuery, uFrag}
fEscaped   == <<"s", ":", "/", "/", "h", "%", "2", "F", "c">>
fBadEscape == <<"s", ":", "/", "/", "h", "/", "c", "%">>
FormURIs == {<<>>, uValid, uFrag, uOther, fEscaped, fBadEscape}

code  == <<"c", "o", "d", "e">>
token == <<"t", "o", "k", "e", "n">>
FormResponseTypes == {<<>>, code, code \o <<" ", " ">> \o token}
FormScopes == {<<>>, <<"a", " ", "b">>}

SeqsUpTo(S, n) == UNION {[1..k -> S] : k \in 0..n}

States == {[k \in 1..n |-> "x"] : n \in 0..MaxStateLen}

Client(id, uris) == [ID |-> id, RedirectURIs |-> uris]

NoClient == Client("", <<>>)
NoRequest == [parseErr |-> FALSE,
              Form |-> [client_id |-> "", redirect_uri |-> <<>>, response_type |-> <<>>,
                        state |-> <<>>, scope |-> <<>>]]
NoStore == [id \in {} |-> NoClient]
NewRequest == [Client |-> <<>>, RedirectURI |-> <<>>, ResponseTypes |-> <<>>,
               State |-> <<>>, Scopes |-> <<>>]
NewResponse == [Query |-> NoValues, Header |-> NoValues]
NewWriter == [status |-> 0, header |-> NoValues, body |-> <<>>]

\* A handler is the CodeResponseTypeHandler of the source, or a stub standing for
\* any other implementation: its result, and what it adds to the response first.
CodeHandler == [kind |-> "code", result |-> NoError, query |-> <<>>, header |-> <<>>]
Stub(result, q, h) == [kind |-> "stub", result |-> result, query |-> q, header |-> h]
Handlers ==
    { CodeHandler,
      Stub(ErrInvalidResponseType, <<>>, <<>>),
      Stub(ErrHandlerFailed, <<>>, <<>>),
      Stub(NoError, << <<code, <<"x">>>> >>, << <<"X-A", <<"1">>>> >>),
      Stub(NoError, << <<code, <<"y">>>> >>, << <<"X-A", <<"2">>>> >>),
      Stub(NoError, << <<<<"k">>, <<"z">>>> >>, <<>>) }

\* Requests as NewAuthorizeRequest returns them without error.
BuiltRequests ==
    { [Client |-> <<Client("c1", <<u>>)>>, RedirectURI |-> <<Parse(u).url>>,
       ResponseTypes |-> rt, State |-> [k \in 1..minStateLength |-> "x"],
       Scopes |-> <<>>] : u \in {uValid, uQuery}, rt \in {<<code>>, <<code, token>>} }

(***************************************************************************)
(* Init: the caller enters one of the exported functions.                  *)
(***************************************************************************)

InitMatch ==
    /\ entry = "MatchRedirectURIWithClientRedirectURIs" /\ pc = "Match"
    /\ store = NoStore /\ r = NoRequest
    /\ \E uris \in SeqsUpTo(URIs, MaxRedirectURIs) : client = Client("c1", uris)
    /\ rawRedirURI \in URIs \cup {<<>>}
    /\ ret = MatchFailed /\ request = NewRequest /\ err = NoError /\ steps = <<>>
    /\ handlers = <<>> /\ idx = 1 /\ resp = NewResponse /\ found = FALSE
    /\ invoked = <<>> /\ out = <<>> /\ rw = NewWriter

InitRequest ==
    /\ entry = "NewAuthorizeRequest" /\ pc = "ParseForm"
    /\ \E uris \in SeqsUpTo(BuildURIs, MaxRedirectURIs) :
           store = [id \in {"c1"} |-> Client(id, uris)]
    /\ \E pe \in BOOLEAN, id \in {"c1", "c2"}, ru \in FormURIs,
          rt \in FormResponseTypes, st \in States, sc \in FormScopes :
           r = [parseErr |-> pe,
                Form |-> [client_id |-> id, redirect_uri |-> ru, response_type |-> rt,
                          state |-> st, scope |-> sc]]
    /\ client = NoClient /\ rawRedirURI = <<>>
    /\ ret = MatchFailed /\ request = NewRequest /\ err = NoError /\ steps = <<>>
    /\ handlers = <<>> /\ idx = 1 /\ resp = NewResponse /\ found = FALSE
    /\ invoked = <<>> /\ out = <<>> /\ rw = NewWriter

InitResponse ==
    /\ entry = "NewAuthorizeResponse" /\ pc = "Handle"
    /\ store = NoStore /\ r = NoRequest /\ client = NoClient /\ rawRedirURI = <<>>
    /\ ret = MatchFailed
    /\ request \in BuiltRequests
    /\ err = NoError /\ steps = <<>>
    /\ handlers \in SeqsUpTo(Handlers, MaxHandlers)
    /\ idx = 1 /\ resp = NewResponse /\ found = FALSE
    /\ invoked = <<>> /\ out = <<>> /\ rw = NewWriter

Init == InitMatch \/ InitRequest \/ InitResponse

(***************************************************************************)
(* NewAuthorizeRequest, one action per step of the function.               *)
(***************************************************************************)

reqLocals == <<entry, store, r, handlers, idx, resp, found, invoked, out, rw>>

ParseForm ==
    /\ pc = "ParseForm"
    /\ steps' = Append(steps, "ParseForm")
    /\ IF r.parseErr
       THEN err' = ErrInvalidRequest /\ pc' = "returned"
       ELSE err' = err /\ pc' = "GetClient"
    /\ UNCHANGED <<reqLocals, client, rawRedirURI, ret, request>>

\* GetClient going on without a client when the lookup fails.
GetClientIgnoreError ==
    /\ pc = "GetClient"
    /\ steps' = Append(steps, "GetClient")
    /\ IF r.Form.client_id \notin DOMAIN store
       THEN UNCHANGED <<client, request>>
       ELSE /\ client' = store[r.Form.client_id]
            /\ request' = [request EXCEPT !.Client = <<store[r.Form.client_id]>>]
    /\ err' = err /\ pc' = "GetRedirectURI"
    /\ UNCHANGED <<reqLocals, rawRedirURI, ret>>

GetClient ==
    /\ pc = "GetClient"
    /\ steps' = Append(steps, "GetClient")
    /\ IF r.Form.client_id \notin DOMAIN store
       THEN /\ err' = ErrInvalidClient /\ pc' = "returned"
            /\ UNCHANGED <<client, request>>
       ELSE /\ client' = store[r.Form.client_id]
            /\ request' = [request EXCEPT !.Client = <<store[r.Form.client_id]>>]
            /\ err' = err /\ pc' = "GetRedirectURI"
    /\ UNCHANGED <<reqLocals, rawRedirURI, ret>>

GetRedirectURI ==
    /\ pc = "GetRedirectURI"
    /\ steps' = Append(steps, "GetRedirectURI")
    /\ \E u \in {GetRedirectURIFromRequestValues(r.Form)} :
       IF u.err
       THEN err' = ErrInvalidRequest /\ pc' = "returned" /\ UNCHANGED rawRedirURI
       ELSE rawRedirURI' = u.s /\ err' = err /\ pc' = "MatchRedirectURI"
    /\ UNCHANGED <<reqLocals, client, ret, request>>

\* MatchRedirectURI storing the parsed candidate in the request before it is matched.
MatchRedirectURIAssignFirst ==
    /\ pc = "MatchRedirectURI"
    /\ steps' = Append(steps, "MatchRedirectURI")
    /\ \E m \in {MatchRedirectURIWithClientRedirectURIs(rawRedirURI, client)},
          cand \in {Parse(rawRedirURI)} :
       /\ ret' = m
       /\ request' = IF m.err
                     THEN (IF cand.err THEN request
                           ELSE [request EXCEPT !.RedirectURI = <<cand.url>>])
                     ELSE [request EXCEPT !.RedirectURI = m.url]
       /\ IF m.err
          THEN err' = ErrInvalidRequest /\ pc' = "returned"
          ELSE err' = err /\ pc' = "ResponseTypes"
    /\ UNCHANGED <<reqLocals, client, rawRedirURI>>

MatchRedirectURI ==
    /\ pc = "MatchRedirectURI"
    /\ steps' = Append(steps, "MatchRedirectURI")
    /\ \E m \in {MatchRedirectURIWithClientRedirectURIs(rawRedirURI, client)} :
       /\ ret' = m
       /\ IF m.err
          THEN err' = ErrInvalidRequest /\ pc' = "returned" /\ UNCHANGED request
          ELSE IF ~IsValidRedirectURI(m.url[1])
          THEN err' = ErrInvalidRequest /\ pc' = "returned" /\ UNCHANGED request
          ELSE /\ request' = [request EXCEPT !.RedirectURI = m.url]
               /\ err' = err /\ pc' = "ResponseTypes"
    /\ UNCHANGED <<reqLocals, client, rawRedirURI>>

ResponseTypes ==
    /\ pc = "ResponseTypes"
    /\ steps' = Append(steps, "ResponseTypes")
    /\ request' = [request EXCEPT
                     !.ResponseTypes = removeEmpty(Split(r.Form.response_type))]
    /\ pc' = "CheckState"
    /\ UNCHANGED <<reqLocals, client, rawRedirURI, ret, err>>

\* CheckState accepting a state one character short of the minimum.
CheckStateOffByOne ==
    /\ pc = "CheckState"
    /\ steps' = Append(steps, "CheckState")
    /\ LET state == r.Form.state IN
       IF state = <<>>
       THEN err' = ErrInvalidState /\ pc' = "returned" /\ UNCHANGED request
       ELSE IF Len(state) < minStateLength - 1
       THEN err' = ErrInvalidState /\ pc' = "returned" /\ UNCHANGED request
       ELSE /\ request' = [request EXCEPT !.State = state]
            /\ err' = err /\ pc' = "Scopes"
    /\ UNCHANGED <<reqLocals, client, rawRedirURI, ret>>

CheckState ==
    /\ pc = "CheckState"
    /\ steps' = Append(steps, "CheckState")
    /\ LET state == r.Form.state IN
       IF state = <<>>
       THEN err' = ErrInvalidState /\ pc' = "returned" /\ UNCHANGED request
       ELSE IF Len(state) < minStateLength
       THEN err' = ErrInvalidState /\ pc' = "returned" /\ UNCHANGED request
       ELSE /\ request' = [request EXCEPT !.State = state]
            /\ err' = err /\ pc' = "Scopes"
    /\ UNCHANGED <<reqLocals, client, rawRedirURI, ret>>

Scopes ==
    /\ pc = "Scopes"
    /\ steps' = Append(steps, "Scopes")
    /\ request' = [request EXCEPT !.Scopes = removeEmpty(Split(r.Form.scope))]
    /\ err' = NoError /\ pc' = "returned"
    /\ UNCHANGED <<reqLocals, client, rawRedirURI, ret>>

(***************************************************************************)
(* MatchRedirectURIWithClientRedirectURIs called on its own.               *)
(***************************************************************************)

Match ==
    /\ pc = "Match"
    /\ ret' = MatchRedirectURIWithClientRedirectURIs(rawRedirURI, client)
    /\ pc' = "matched"
    /\ UNCHANGED <<reqLocals, client, rawRedirURI, request, err, steps>>

(***************************************************************************)
(* NewAuthorizeResponse: one action per loop iteration, one for the end.   *)
(***************************************************************************)

\* ResponseTypes.Has
Has(items, item) == \E k \in 1..Len(items) : items[k] = item

RECURSIVE AddPairs(_, _)
AddPairs(v, pairs) ==
    IF pairs = <<>> THEN v
    ELSE AddPairs(Add(v, Head(pairs)[1], Head(pairs)[2]), Tail(pairs))

\* h.HandleResponseType(ctx, resp, ar, r, session): [err, resp].
HandleResponseType(h, rsp, ar) ==
    IF h.kind = "code"
    THEN [err |-> IF Has(ar.ResponseTypes, token) THEN NoError ELSE ErrInvalidResponseType,
          resp |-> rsp]
    ELSE [err |-> h.result,
          resp |-> IF h.result = NoError
                   THEN [Query |-> AddPairs(rsp.Query, h.query),
                         Header |-> AddPairs(rsp.Header, h.header)]
                   ELSE rsp]

respFrame == <<entry, store, r, client, rawRedirURI, ret, request, steps, handlers, rw>>

\* Handle with found following the last handler only.
HandleLastWins ==
    /\ pc = "Handle"
    /\ idx <= Len(handlers)
    /\ invoked' = Append(invoked, idx)
    /\ \E h \in {HandleResponseType(handlers[idx], resp, request)} :
       /\ resp' = h.resp
       /\ IF h.err = NoError \/ h.err = ErrInvalidResponseType
          THEN found' = (h.err = NoError) /\ idx' = idx + 1 /\ UNCHANGED <<pc, err, out>>
          ELSE out' = <<>> /\ err' = h.err /\ pc' = "dispatched" /\ UNCHANGED <<found, idx>>
    /\ UNCHANGED respFrame

\* Handle returning the response at the first success.
HandleStopAtSuccess ==
    /\ pc = "Handle"
    /\ idx <= Len(handlers)
    /\ invoked' = Append(invoked, idx)
    /\ \E h \in {HandleResponseType(handlers[idx], resp, request)} :
       /\ resp' = h.resp
       /\ IF h.err = NoError
          THEN /\ found' = TRUE /\ out' = <<h.resp>> /\ err' = NoError
               /\ pc' = "dispatched" /\ UNCHANGED idx
          ELSE IF h.err # ErrInvalidResponseType
          THEN out' = <<>> /\ err' = h.err /\ pc' = "dispatched" /\ UNCHANGED <<found, idx>>
          ELSE idx' = idx + 1 /\ UNCHANGED <<pc, err, out, found>>
    /\ UNCHANGED respFrame

\* Finish returning the last handler's error when no handler was found.
FinishReturnsSentinel ==
    /\ pc = "Handle"
    /\ idx > Len(handlers)
    /\ IF ~found
       THEN /\ out' = <<>>
            /\ err' = IF handlers = <<>> THEN ErrNoResponseTypeHandlerFound
                      ELSE ErrInvalidResponseType
       ELSE out' = <<resp>> /\ err' = NoError
    /\ pc' = "dispatched"
    /\ UNCHANGED <<respFrame, idx, resp, found, invoked>>

Handle ==
    /\ pc = "Handle"
    /\ idx <= Len(handlers)
    /\ invoked' = Append(invoked, idx)
    /\ \E h \in {HandleResponseType(handlers[idx], resp, request)} :
       /\ resp' = h.resp
       /\ IF h.err = NoError
          THEN found' = TRUE /\ idx' = idx + 1 /\ UNCHANGED <<pc, err, out>>
          ELSE IF h.err # ErrInvalidResponseType
          THEN out' = <<>> /\ err' = h.err /\ pc' = "dispatched" /\ UNCHANGED <<found, idx>>
          ELSE idx' = idx + 1 /\ UNCHANGED <<pc, err, out, found>>
    /\ UNCHANGED respFrame

Finish ==
    /\ pc = "Handle"
    /\ idx > Len(handlers)
    /\ IF ~found
       THEN out' = <<>> /\ err' = ErrNoResponseTypeHandlerFound
       ELSE out' = <<resp>> /\ err' = NoError
    /\ pc' = "dispatched"
    /\ UNCHANGED <<respFrame, idx, resp, found, invoked>>

(***************************************************************************)
(* The response writers.                                                   *)
(***************************************************************************)

\* for k := range args { q.Add(k, args.Get(k)) }
RECURSIVE AddFirsts(_, _, _)
AddFirsts(q, args, keys) ==
    IF keys = {} THEN q
    ELSE LET k == CHOOSE x \in keys : TRUE IN
         AddFirsts(Add(q, k, Get(args, k)), args, keys \ {k})

\* for k, v := range header { for _, vv := range v { rw.Header().Add(k, vv) } }
AddHeaders(hdr, header) ==
    [k \in DOMAIN hdr \cup DOMAIN header |->
        (IF k \in DOMAIN hdr THEN hdr[k] ELSE <<>>)
        \o (IF k \in DOMAIN header THEN header[k] ELSE <<>>)]

\* Header.Set
Set(hdr, key, value) == [k \in DOMAIN hdr \cup {key} |-> IF k = key THEN <<value>> ELSE hdr[k]]

\* q := redir.Query(); q.Add(k, args.Get(k)) for each key; redir.RawQuery = q.Encode()
MergeQuery(redir, args) ==
    [redir EXCEPT !.RawQuery = Encode(AddFirsts(Query(redir), args, DOMAIN args))]

\* query.Add("error", ...); query.Add("error_description", ...); RawQuery = query.Encode()
ErrorQuery(redirectURI, name, description) ==
    [redirectURI EXCEPT
        !.RawQuery = Encode(Add(Add(Query(redirectURI), <<"e", "r", "r", "o", "r">>, name),
                                <<"e", "r", "r", "o", "r", "_", "d", "e", "s", "c", "r", "i", "p", "t", "i", "o", "n">>,
                                description))]

writeFrame == <<entry, store, r, client, rawRedirURI, ret, err, steps, handlers, idx,
                resp, found, invoked, out>>

WriteAuthorizeResponse ==
    /\ pc = "dispatched"
    /\ err = NoError
    /\ \E redir \in {MergeQuery(request.RedirectURI[1], out[1].Query)} :
           /\ request' = [request EXCEPT !.RedirectURI = <<redir>>]
           /\ rw' = [rw EXCEPT !.header = Set(AddHeaders(rw.header, out[1].Header),
                                              "Location", String(redir)),
                               !.status = StatusFound]
    /\ pc' = "written"
    /\ UNCHANGED writeFrame

\* ErrorToRFC6749Error: the wire identifier and a description.
ErrorToRFC6749Error(e) ==
    IF e = ErrInvalidRequest
    THEN [Name |-> <<"i", "n", "v", "a", "l", "i", "d", "_", "r", "e", "q", "u", "e", "s", "t">>, Description |-> <<"b", "a", "d", " ", "r", "e", "q", "u", "e", "s", "t">>]
    ELSE IF e = ErrInvalidClient
    THEN [Name |-> <<"i", "n", "v", "a", "l", "i", "d", "_", "c", "l", "i", "e", "n", "t">>, Description |-> <<"b", "a", "d", " ", "c", "l", "i", "e", "n", "t">>]
    ELSE IF e = ErrInvalidState
    THEN [Name |-> <<"i", "n", "v", "a", "l", "i", "d", "_", "s", "t", "a", "t", "e">>, Description |-> <<"b", "a", "d", " ", "s", "t", "a", "t", "e">>]
    ELSE [Name |-> <<"e", "r", "r", "o", "r">>, Description |-> <<"f", "a", "i", "l", "e", "d">>]

\* AuthorizeRequest.IsRedirectURIValid: a redirect URI was set and is valid.
IsRedirectURIValid(ar) ==
    ar.RedirectURI # <<>> /\ IsValidRedirectURI(ar.RedirectURI[1])

\* pkg.WriteJSON: the value as the JSON body.
WriteJSON(w, data) ==
    [w EXCEPT !.header = Set(w.header, "Content-Type", <<"a", "p", "p", "l", "i", "c", "a", "t", "i", "o", "n", "/", "j", "s", "o", "n">>), !.body = <<data>>]

WriteAuthorizeError ==
    /\ pc \in {"returned", "dispatched"}
    /\ err # NoError
    /\ \E rfcerr \in {ErrorToRFC6749Error(err)} :
       IF ~IsRedirectURIValid(request)
       THEN rw' = WriteJSON(rw, rfcerr) /\ UNCHANGED request
       ELSE \E redirectURI \in {ErrorQuery(request.RedirectURI[1], rfcerr.Name,
                                           rfcerr.Description)} :
                /\ request' = [request EXCEPT !.RedirectURI = <<redirectURI>>]
                /\ rw' = [rw EXCEPT !.header = Add(rw.header, "Location", String(redirectURI)),
                                    !.status = StatusFound]
    /\ pc' = "written"
    /\ UNCHANGED writeFrame

Next ==
    \/ Match
    \/ ParseForm \/ GetClient \/ GetRedirectURI \/ MatchRedirectURI
    \/ ResponseTypes \/ CheckState \/ Scopes
    \/ Handle \/ Finish
    \/ WriteAuthorizeResponse \/ WriteAuthorizeError

Spec == Init /\ [][Next]_vars

(***************************************************************************)
(* Properties.                                                             *)
(***************************************************************************)

Range(seq) == {seq[k] : k \in 1..Len(seq)}

\* The text has a scheme: letters (then digits, "+", "-", ".") up to a ":".
HasScheme(str) ==
    \E k \in 2..Len(str) :
        /\ str[k] = ":"
        /\ \A j \in 1..(k - 1) :
              IsLetter(str[j]) \/ (j > 1 /\ (IsDigit(str[j]) \/ str[j] \in {"+", "-", "."}))

\* The text has a "#" with something after it.
CarriesFragment(str) == \E k \in 1..(Len(str) - 1) : str[k] = "#"

\* MatchRedirectURIWithClientRedirectURIs has returned into ret.
Resolved == pc = "matched" \/ "MatchRedirectURI" \in Range(steps)

InBuilder == entry = "NewAuthorizeRequest"

\* C1: a non-empty candidate that equals none of the client's registered redirect
\* URIs is rejected by MatchRedirectURIWithClientRedirectURIs, and
\* NewAuthorizeRequest then returns ErrInvalidRequest without a redirect URI,
\* also when the candidate is an absolute URI without fragment.
C1_UnregisteredRejected ==
    (Resolved /\ rawRedirURI # <<>> /\ rawRedirURI \notin Range(client.RedirectURIs))
    => /\ ret.err /\ ret.url = <<>>
       /\ InBuilder => /\ pc \in {"returned", "written"}
                       /\ err = ErrInvalidRequest
                       /\ request.RedirectURI = <<>>

C1_Witness ==
    /\ pc = "matched" /\ rawRedirURI = uOther /\ uValid \in Range(client.RedirectURIs)
    /\ HasScheme(rawRedirURI) /\ ~CarriesFragment(rawRedirURI)
    /\ ret.err

AbsoluteFragmentFree(str) ==
    /\ ~Parse(str).err
    /\ Parse(str).url.Scheme # <<>>
    /\ Parse(str).url.Fragment = <<>>

\* With an empty candidate, resolution succeeds exactly when the client has one
\* registered URI and it is absolute and fragment-free; a failure is InvalidRequest.
C3_SoleRegistered ==
    (Resolved /\ rawRedirURI = <<>>)
    => /\ ~ret.err <=> /\ Len(client.RedirectURIs) = 1
                       /\ AbsoluteFragmentFree(client.RedirectURIs[1])
       /\ ~ret.err => ret.url # <<>>
       /\ (ret.err /\ InBuilder) => err = ErrInvalidRequest /\ pc \in {"returned", "written"}

\* C3 as stated: with an empty candidate, resolution succeeds exactly when the
\* client has one registered URI and it is absolute and fragment-free; the resolved
\* URI then reads as that registered URI, and otherwise the result is InvalidRequest.
C3_Original ==
    /\ C3_SoleRegistered
    /\ (Resolved /\ rawRedirURI = <<>> /\ ~ret.err)
          => String(ret.url[1]) = client.RedirectURIs[1]

\* C3 amended: as above, but the resolved URI is what url.Parse makes of the
\* registered URI, which need not read as the registered string.
C3_ResolvedIsParsedRegistered ==
    /\ C3_SoleRegistered
    /\ (Resolved /\ rawRedirURI = <<>> /\ ~ret.err)
          => ret.url[1] = Parse(client.RedirectURIs[1]).url

C3_Witness ==
    /\ pc = "matched" /\ rawRedirURI = <<>> /\ client.RedirectURIs = <<uUpper>>
    /\ ~ret.err /\ String(ret.url[1]) = uValid

\* NewAuthorizeRequest has returned.
Returned == InBuilder /\ pc = "returned"

ShortState == Len(r.Form.state) < minStateLength

\* Form parse, client lookup, the unescape and the resolution all succeed.
PrecedingStepsPass ==
    /\ ~r.parseErr
    /\ r.Form.client_id \in DOMAIN store
    /\ ~QueryUnescape(r.Form.redirect_uri).err
    /\ ~MatchRedirectURIWithClientRedirectURIs(QueryUnescape(r.Form.redirect_uri).s,
                                               store[r.Form.client_id]).err

AllSteps == <<"ParseForm", "GetClient", "GetRedirectURI", "MatchRedirectURI",
              "ResponseTypes", "CheckState", "Scopes">>

\* The first step that fails for the request, 0 when none does.
FirstFailing ==
    IF r.parseErr THEN 1
    ELSE IF r.Form.client_id \notin DOMAIN store THEN 2
    ELSE IF QueryUnescape(r.Form.redirect_uri).err THEN 3
    ELSE IF ~PrecedingStepsPass THEN 4
    ELSE IF ShortState THEN 6
    ELSE 0

ErrorOfStep == <<ErrInvalidRequest, ErrInvalidClient, ErrInvalidRequest, ErrInvalidRequest,
                 NoError, ErrInvalidState, NoError>>

\* C5: the steps run in the fixed order and stop at the first one that fails, whose
\* error is returned: ErrInvalidRequest for the form, ErrInvalidClient for the
\* client, ErrInvalidRequest for the redirect URI, ErrInvalidState for the state;
\* response_type and scope never fail, and nil is returned only when no step failed.
C5_FirstFailingStepDecides ==
    InBuilder =>
       /\ steps = SubSeq(AllSteps, 1, Len(steps))
       /\ pc = "returned" =>
             /\ steps = SubSeq(AllSteps, 1, IF FirstFailing = 0 THEN Len(AllSteps)
                                            ELSE FirstFailing)
             /\ err = (IF FirstFailing = 0 THEN NoError ELSE ErrorOfStep[FirstFailing])

C5_Witness ==
    /\ Returned /\ err = ErrInvalidClient /\ steps = <<"ParseForm", "GetClient">>
    /\ r.Form.redirect_uri = fBadEscape /\ ShortState

InDispatcher == entry = "NewAuthorizeResponse"

Dispatched == InDispatcher /\ pc \in {"dispatched", "written"}

\* What handler k returns for the request.
Result(k) == HandleResponseType(handlers[k], NewResponse, request).err

Fatal(k) == Result(k) \notin {NoError, ErrInvalidResponseType}

\* C6: when a handler succeeds and none fails fatally, NewAuthorizeResponse returns
\* the response and no error, wherever the succeeding handlers are in the chain.
C6_SuccessReturnsResponse ==
    (Dispatched /\ (\E k \in 1..Len(handlers) : Result(k) = NoError)
                /\ (\A k \in 1..Len(handlers) : ~Fatal(k)))
    => err = NoError /\ out = <<resp>>

C6_Witness ==
    /\ Dispatched /\ Len(handlers) = 3
    /\ Result(1) = ErrInvalidResponseType /\ Result(2) = NoError
    /\ Result(3) = ErrInvalidResponseType
    /\ err = NoError /\ out # <<>>

\* C7: when every handler is not responsible, also in an empty chain,
\* NewAuthorizeResponse returns no response and ErrNoResponseTypeHandlerFound; it
\* never returns ErrInvalidResponseType.
C7_NoHandlerFound ==
    Dispatched =>
       /\ (\A k \in 1..Len(handlers) : Result(k) = ErrInvalidResponseType)
             => out = <<>> /\ err = ErrNoResponseTypeHandlerFound
       /\ err # ErrInvalidResponseType

C7_Witness ==
    /\ Dispatched /\ Len(handlers) = 2
    /\ Result(1) = ErrInvalidResponseType /\ Result(2) = ErrInvalidResponseType
    /\ out = <<>> /\ err = ErrNoResponseTypeHandlerFound

\* The number of handlers NewAuthorizeResponse is to invoke.
ToInvoke ==
    IF \E k \in 1..Len(handlers) : Fatal(k)
    THEN CHOOSE k \in 1..Len(handlers) : Fatal(k) /\ \A j \in 1..(k - 1) : ~Fatal(j)
    ELSE Len(handlers)

\* C8: the handlers are invoked in chain order, each once, up to and including the
\* first that fails fatally, or all of them; a success does not stop the loop, and
\* a fatal error is returned without a response whatever succeeded before it.
C8_InvokedPrefix ==
    InDispatcher =>
       /\ invoked = [k \in 1..Len(invoked) |-> k]
       /\ Dispatched =>
             /\ Len(invoked) = ToInvoke
             /\ (\E k \in 1..Len(handlers) : Fatal(k))
                   => err = Result(ToInvoke) /\ out = <<>>

C8_Witness ==
    /\ Dispatched /\ Len(handlers) = 3
    /\ Result(1) = NoError /\ Fatal(2)
    /\ invoked = <<1, 2>> /\ out = <<>> /\ err = ErrHandlerFailed

\* The URI without its query.
Base(u) == [u EXCEPT !.RawQuery = <<>>]

Location == rw.header["Location"][1]

\* WriteAuthorizeError has written the error err for the request.
ErrorWritten == pc = "written" /\ err # NoError

\* C9: WriteAuthorizeError redirects only to a redirect URI that resolution and
\* validation produced: without one it writes the error as JSON, with neither a
\* Location header nor status 302; with one it answers 302 with that URI plus error
\* and error_description.  NewAuthorizeRequest sets RedirectURI only once the
\* resolution succeeded, so its ErrInvalidRequest and ErrInvalidClient are written
\* as JSON and its ErrInvalidState as a redirect to the registered URI.
C9_NoUnverifiedRedirect ==
    /\ (InBuilder /\ pc # "written" /\ request.RedirectURI # <<>>)
          => /\ "MatchRedirectURI" \in Range(steps) /\ ~ret.err
             /\ request.RedirectURI = ret.url
    /\ ErrorWritten =>
          IF InBuilder /\ err # ErrInvalidState
          THEN /\ rw.body = <<ErrorToRFC6749Error(err)>>
               /\ "Location" \notin DOMAIN rw.header
               /\ rw.status # StatusFound
               /\ request.RedirectURI = <<>>
          ELSE /\ rw.status = StatusFound
               /\ rw.body = <<>>
               /\ "Location" \in DOMAIN rw.header /\ Len(rw.header["Location"]) = 1
               /\ LET registered == IF InBuilder THEN ret.url[1]
                                    ELSE Parse(request.Client[1].RedirectURIs[1]).url
                  IN  /\ ~Parse(Location).err
                      /\ Base(Parse(Location).url) = Base(registered)
                      /\ registered.Scheme # <<>> /\ registered.Fragment = <<>>
                      /\ \E u \in Range(request.Client[1].RedirectURIs) :
                            Parse(u).url = registered
                      /\ Query(Parse(Location).url)
                            = Add(Add(Query(registered),
                                      <<"e", "r", "r", "o", "r">>,
                                      ErrorToRFC6749Error(err).Name),
                                  <<"e", "r", "r", "o", "r", "_", "d", "e", "s", "c", "r", "i", "p", "t", "i", "o", "n">>,
                                  ErrorToRFC6749Error(err).Description)

C9_Witness ==
    /\ InBuilder /\ ErrorWritten /\ err = ErrInvalidState
    /\ rw.status = StatusFound
    /\ ret.url = <<Parse(uQuery).url>>
    /\ <<"k">> \in DOMAIN Query(Parse(Location).url)

\* WriteAuthorizeResponse has written the response out[1].
ResponseWritten == pc = "written" /\ err = NoError

\* C10 as stated: the Location query holds every parameter of the resolved redirect
\* URI unchanged and, after them, every value of every key of the response; every
\* response header value is copied and the status is 302.
C10_Original ==
    ResponseWritten =>
       /\ rw.status = StatusFound
       /\ \A k \in DOMAIN out[1].Header : rw.header[k] = out[1].Header[k]
       /\ ~Parse(Location).err
       /\ LET before == Query(Parse(request.Client[1].RedirectURIs[1]).url)
              after  == Query(Parse(Location).url)
              added  == out[1].Query
          IN  after = [k \in DOMAIN before \cup DOMAIN added |->
                          (IF k \in DOMAIN before THEN before[k] ELSE <<>>)
                          \o (IF k \in DOMAIN added THEN added[k] ELSE <<>>)]

==========================================================================
